---- MODULE Spec2Model ----
(***************************************************************************)
(* A model of fdy-scraping's FdyFetchClient (src/index.js): client         *)
(* instances, the calls in flight on them, the transport engine's answers  *)
(* and what each call resolves or rejects with.                            *)
(***************************************************************************)
EXTENDS Integers, Sequences, FiniteSets, TLC

VARIABLES clients, calls

vars == <<clients, calls>>

(***************************************************************************)
(* JavaScript values.  Every value carries its type tag, so that property  *)
(* reads, truthiness, string conversion, + and spreading behave as they do *)
(* in the language, also on the values the code does not expect.  Numbers  *)
(* are the doubles of the language: an integer of up to nine digits is     *)
(* Num(n), any other finite double is Dec(neg, d, e), where d * 10^e is    *)
(* the shortest decimal that reads as it, the one the language prints.     *)
(***************************************************************************)
Undefined == [t |-> "undefined"]

Null == [t |-> "null"]

\* A string is a sequence of UTF-16 code units.  A code unit from U+0001 to U+00FF other
\* than U+001B and U+0060 is written as the character itself; every other code unit,
\* U+0000, U+001B, U+0060 and U+0100 to U+FFFF, the halves of a surrogate pair each on its
\* own, is written as the character U+001B followed by the four lower-case hexadecimal
\* digits of its code.  So Str("a" \o ControlChars[27] \o "0060") is the string of the
\* two code units U+0061 and U+0060, and two strings are equal exactly when their
\* code units are.
Str(s) == [t |-> "string", v |-> s]

HexDigits == "0123456789abcdefABCDEF"

\* The characters U+0001 to U+001F.
ControlChars ==
  <<"", "", "", "", "", "", "",
    "", "\t", "\n", "", "\f", "\r", "", "",
    "", "", "", "", "", "", "", "",
    "", "", "", "", "", "", "", "">>

\* The characters U+0020 to U+007E without the grave accent, U+0060.
Printable == " !\"#$%&'()*+,-./0123456789:;<=>?@ABCDEFGHIJKLMNOPQRSTUVWXYZ[\\]^_ abcdefghijklmnopqrstuvwxyz{|}~"

\* The characters U+007F to U+00FF.
Latin == " ¡¢£¤¥¦§¨©ª«¬­®¯°±²³´µ¶·¸¹º»¼½¾¿ÀÁÂÃÄÅÆÇÈÉÊËÌÍÎÏÐÑÒÓÔÕÖ×ØÙÚÛÜÝÞßàáâãäåæçèéêëìíîïðñòóôõö÷øùúûüýþÿ"

\* The code unit of the given code, as the strings hold it.
Unit(code) ==
  LET hex(d) == SubSeq(HexDigits, d + 1, d + 1)
  IN CASE code > 0 /\ code < 32 /\ code # 27 -> ControlChars[code]
       [] code >= 32 /\ code < 127 /\ code # 96 -> SubSeq(Printable, code - 31, code - 31)
       [] code >= 127 /\ code < 256 -> SubSeq(Latin, code - 126, code - 126)
       [] OTHER -> ControlChars[27] \o hex(code \div 4096) \o hex((code \div 256) % 16)
                   \o hex((code \div 16) % 16) \o hex(code % 16)

\* The code units of the string s, in their order: s.length of them.
RECURSIVE CodeUnits(_)
CodeUnits(s) ==
  IF s = "" THEN <<>>
  ELSE LET n == IF SubSeq(s, 1, 1) = ControlChars[27] THEN 5 ELSE 1
       IN <<SubSeq(s, 1, n)>> \o CodeUnits(SubSeq(s, n + 1, Len(s)))

Num(n) == [t |-> "number", v |-> n]

\* The double nearest to d * 10^e, negated when neg: d is a string of digits that neither
\* starts nor ends with 0.  A fraction, or an integer of ten digits or more.
Dec(neg, d, e) == [t |-> "number", neg |-> neg, d |-> d, e |-> e]

\* -0
NegZero == [t |-> "number", v |-> 0, neg |-> TRUE]

NaN == [t |-> "number", nan |-> TRUE]

\* Infinity (sign = 1) and -Infinity (sign = -1)
Infinity(sign) == [t |-> "number", inf |-> sign]

Bool(b) == [t |-> "boolean", v |-> b]

Obj(f) == [t |-> "object", v |-> f]

Arr(s) == [t |-> "array", v |-> s]

\* The classes of the language whose instances inherit their name.
NativeErrors ==
  {"Error", "TypeError", "RangeError", "SyntaxError", "ReferenceError", "EvalError", "URIError",
   "AggregateError"}

\* An Error instance of class cls with properties f, of which those in hidden are not
\* its own enumerable ones (they are not enumerable, or inherited).
ErrWith(cls, f, hidden) == [t |-> "error", cls |-> cls, v |-> f, hidden |-> hidden]

\* An Error instance as its constructor leaves it: message, stack and cause are not
\* enumerable, and a native error inherits its name.
Err(cls, f) ==
  ErrWith(cls, f,
          ((DOMAIN f) \cap {"message", "stack", "cause"})
          \cup (IF cls \in NativeErrors /\ "name" \in DOMAIN f /\ f["name"] = [t |-> "string", v |-> cls]
                THEN {"name"} ELSE {}))

NoProps == [k \in {} |-> Undefined]

\* The object literal {k: v}.
Prop(k, v) == [x \in {k} |-> v]

\* The properties of a, then those of b: a later key replaces an earlier one.
Merge(a, b) == [k \in (DOMAIN a) \cup (DOMAIN b) |-> IF k \in DOMAIN b THEN b[k] ELSE a[k]]

\* o?.k
Get(o, k) ==
  IF o.t \in {"object", "error"} /\ k \in DOMAIN o.v THEN o.v[k] ELSE Undefined

\* ToBoolean
Truthy(x) ==
  CASE x.t \in {"undefined", "null"} -> FALSE
    [] x.t = "string" -> x.v # ""
    [] x.t = "number" -> IF "nan" \in DOMAIN x THEN FALSE
                         ELSE IF "v" \in DOMAIN x THEN x.v # 0 ELSE TRUE
    [] x.t = "boolean" -> x.v
    [] OTHER -> TRUE

\* a || b
Or(a, b) == IF Truthy(a) THEN a ELSE b

\* A parameter's default: it applies when the argument is undefined.
Default(x, d) == IF x = Undefined THEN d ELSE x

Abs(n) == IF n < 0 THEN 0 - n ELSE n

RECURSIVE Pow10(_)
Pow10(k) == IF k <= 0 THEN 1 ELSE 10 * Pow10(k - 1)

\* k zeros
RECURSIVE Zeros(_)
Zeros(k) == IF k <= 0 THEN "" ELSE IF k = 1 THEN "0" ELSE Zeros(k \div 2) \o Zeros(k - k \div 2)

Digits == <<"0", "1", "2", "3", "4", "5", "6", "7", "8", "9">>

IsDigit(c) == \E d \in 1..10 : Digits[d] = c

DigitVal(c) == (CHOOSE d \in 1..10 : Digits[d] = c) - 1

\* The value of the digits d, of which there are at most nine.
RECURSIVE IntOf(_)
IntOf(d) ==
  IF d = "" THEN 0
  ELSE 10 * IntOf(SubSeq(d, 1, Len(d) - 1)) + DigitVal(SubSeq(d, Len(d), Len(d)))

\* The digits d without their leading zeros.
RECURSIVE NoLeading(_)
NoLeading(d) ==
  CASE d = "" \/ SubSeq(d, 1, 1) # "0" -> d
    [] Len(d) >= 8 /\ SubSeq(d, 1, 8) = "00000000" -> NoLeading(SubSeq(d, 9, Len(d)))
    [] OTHER -> NoLeading(SubSeq(d, 2, Len(d)))

\* The digits d without their trailing zeros.
RECURSIVE NoTrailing(_)
NoTrailing(d) ==
  CASE d = "" \/ SubSeq(d, Len(d), Len(d)) # "0" -> d
    [] Len(d) >= 8 /\ SubSeq(d, Len(d) - 7, Len(d)) = "00000000" -> NoTrailing(SubSeq(d, 1, Len(d) - 8))
    [] OTHER -> NoTrailing(SubSeq(d, 1, Len(d) - 1))

\* The first and the second half of the digits a.
Upper(a) == SubSeq(a, 1, Len(a) - Len(a) \div 2)

Lower(a) == SubSeq(a, Len(a) - Len(a) \div 2 + 1, Len(a))

Pad(a, n) == Zeros(n - Len(a)) \o a

\* The digits a are below the digits b, a and b of one length.
RECURSIVE LessDigits(_, _)
LessDigits(a, b) ==
  CASE Len(a) <= 8 -> IntOf(a) < IntOf(b)
    [] Upper(a) = Upper(b) -> LessDigits(Lower(a), Lower(b))
    [] OTHER -> LessDigits(Upper(a), Upper(b))

\* The digits of two halves, and the carry or borrow out of the upper half.
Joined(upper, lower) == [d |-> upper.d \o lower.d, c |-> upper.c]

\* The digits and the carry of a + b + c, a and b of one length, c the carry: by halves,
\* the second before the first.
RECURSIVE AddHalves(_, _, _)
AddUpper(a, b, lower) ==
  IF lower.c = 0 THEN Joined(AddHalves(Upper(a), Upper(b), 0), lower)
  ELSE Joined(AddHalves(Upper(a), Upper(b), 1), lower)

AddHalves(a, b, c) ==
  CASE a = "" -> [d |-> "", c |-> c]
    [] Len(a) <= 8 -> [d |-> Pad(ToString((IntOf(a) + IntOf(b) + c) % Pow10(Len(a))), Len(a)),
                       c |-> (IntOf(a) + IntOf(b) + c) \div Pow10(Len(a))]
    [] OTHER -> AddUpper(a, b, AddHalves(Lower(a), Lower(b), c))

AddCarried(sum) == (IF sum.c = 0 THEN "" ELSE "1") \o sum.d

\* The digits of a + b + c, a and b of one length, c the carry.
AddDigits(a, b, c) == AddCarried(AddHalves(a, b, c))

\* The digits and the borrow of a - b - c, a and b of one length, c the borrow.
RECURSIVE SubHalves(_, _, _)
SubUpper(a, b, lower) ==
  IF lower.c = 0 THEN Joined(SubHalves(Upper(a), Upper(b), 0), lower)
  ELSE Joined(SubHalves(Upper(a), Upper(b), 1), lower)

SubHalves(a, b, c) ==
  CASE a = "" -> [d |-> "", c |-> c]
    [] Len(a) <= 8 ->
         [d |-> Pad(ToString((Pow10(Len(a)) + IntOf(a) - IntOf(b) - c) % Pow10(Len(a))), Len(a)),
          c |-> IF IntOf(a) < IntOf(b) + c THEN 1 ELSE 0]
    [] OTHER -> SubUpper(a, b, SubHalves(Lower(a), Lower(b), c))

\* The digits of a - b - c, a and b of one length, a not below b, c the borrow.
SubDigits(a, b, c) == SubHalves(a, b, c).d

\* A natural number of any size is its digits without leading zeros, zero the empty
\* string.  a < b:
Less(a, b) == Len(a) < Len(b) \/ (Len(a) = Len(b) /\ LessDigits(a, b))

Longer(a, b) == IF Len(a) > Len(b) THEN Len(a) ELSE Len(b)

\* a + b
PlusN(a, b) == AddDigits(Pad(a, Longer(a, b)), Pad(b, Longer(a, b)), 0)

\* a - b, a not below b
MinusN(a, b) == NoLeading(SubDigits(Pad(a, Longer(a, b)), Pad(b, Longer(a, b)), 0))

\* The digits (as many as a has) and the carry of a * k + c, for k and c below 2^27.
RECURSIVE TimesHalves(_, _, _)
TimesUpper(a, k, lower) ==
  IF lower.c = 0 THEN Joined(TimesHalves(Upper(a), k, 0), lower)
  ELSE Joined(TimesHalves(Upper(a), k, lower.c), lower)

TimesHalves(a, k, c) ==
  CASE a = "" -> [d |-> "", c |-> c]
    [] Len(a) = 1 -> [d |-> Digits[((DigitVal(a) * k + c) % 10) + 1], c |-> (DigitVal(a) * k + c) \div 10]
    [] OTHER -> TimesUpper(a, k, TimesHalves(Lower(a), k, c))

TimesCarried(product) == (IF product.c = 0 THEN "" ELSE ToString(product.c)) \o product.d

\* a * k + c, for k and c below 2^27
Times(a, k, c) == TimesCarried(TimesHalves(a, k, c))

\* a * 2^k
RECURSIVE Doubled(_, _)
Doubled(a, k) ==
  CASE k = 0 \/ a = "" -> a
    [] k >= 26 -> Doubled(Times(a, 67108864, 0), k - 26)
    [] OTHER -> Doubled(Times(a, 2, 0), k - 1)

\* a * 5^k
RECURSIVE Fived(_, _)
Fived(a, k) ==
  CASE k = 0 \/ a = "" -> a
    [] k >= 11 -> Fived(Times(a, 48828125, 0), k - 11)
    [] OTHER -> Fived(Times(a, 5, 0), k - 1)

\* The greatest t with t * m <= r, counted from t, and what is left of r.
RECURSIVE Fits(_, _, _)
Fits(r, m, t) == IF Less(r, m) THEN [t |-> t, r |-> r] ELSE Fits(MinusN(r, m), m, t + 1)

\* Long division of n by m, from digit i of n, with remainder and quotient so far; the
\* quotient has no leading zeros.
RECURSIVE Divide(_, _, _, _, _)
DivideStep(n, m, i, quo, f) ==
  IF f.t = 0 /\ quo = "" THEN Divide(n, m, i + 1, f.r, "")
  ELSE Divide(n, m, i + 1, f.r, quo \o Digits[f.t + 1])

Divide(n, m, i, rem, quo) ==
  IF i > Len(n) THEN [q |-> quo, r |-> rem]
  ELSE DivideStep(n, m, i, quo, Fits(NoLeading(rem \o SubSeq(n, i, i)), m, 0))

\* The quotient and the remainder of n by m, neither zero.
Quotient(n, m) ==
  IF Len(n) < Len(m) THEN [q |-> "", r |-> n]
  ELSE Divide(n, m, Len(m), SubSeq(n, 1, Len(m) - 1), "")

\* A double is m * 2^q, with 2^52 <= m < 2^53, or m < 2^52 and q = -1074.
Two52 == "4503599627370496"

Two53 == "9007199254740992"

MinExponent == -1074

MaxExponent == 971

Odd(a) == a # "" /\ DigitVal(SubSeq(a, Len(a), Len(a))) % 2 = 1

\* The quotient dm.q of a division by m, remainder dm.r, rounded to the nearest
\* integer, to the even one of two.
Nearest(dm, m) ==
  IF Less(m, Times(dm.r, 2, 0)) \/ (Times(dm.r, 2, 0) = m /\ Odd(dm.q)) THEN PlusN(dm.q, "1")
  ELSE dm.q

Carried(m, q) == IF m = Two53 THEN [m |-> Two52, q |-> q + 1] ELSE [m |-> m, q |-> q]

\* The double nearest to n / m * 2^q, n and m positive.
RECURSIVE Scale(_, _, _)
Scale(n, m, q) ==
  CASE Len(n) - Len(m) >= 25 -> Scale(n, Times(m, 67108864, 0), q + 26)
    [] Len(n) - Len(m) >= 15 /\ ~Less(n, Times(Times(m, 67108864, 0), 134217728, 0)) ->
         Scale(n, Times(m, 2, 0), q + 1)
    [] Len(n) - Len(m) <= 6 /\ q - 26 >= MinExponent -> Scale(Times(n, 67108864, 0), m, q - 26)
    [] Len(n) - Len(m) <= 11 /\ q - 10 >= MinExponent -> Scale(Times(n, 1024, 0), m, q - 10)
    [] Len(n) - Len(m) <= 16 /\ q > MinExponent /\ Less(n, Times(Times(m, 67108864, 0), 67108864, 0)) ->
         Scale(Times(n, 2, 0), m, q - 1)
    [] OTHER -> Carried(Nearest(Quotient(n, m), m), q)

\* The double nearest to d * 10^e, d without leading zeros and not zero.
ToDouble(d, e) == IF e >= 0 THEN Scale(d \o Zeros(e), "1", 0) ELSE Scale(d, Fived("1", 0 - e), e)

\* Digits and exponent without the trailing zeros of the digits.
Strip(d, e) == [d |-> NoTrailing(d), e |-> e + (Len(d) - Len(NoTrailing(d)))]

\* The decimal number that the double r is.
Exact(r) == IF r.q >= 0 THEN Strip(Doubled(r.m, r.q), 0) ELSE Strip(Fived(r.m, 0 - r.q), r.q)

\* a * 2^(q-2) in units of 10^e, where e is q - 2 or 0, whichever is less: a quarter of
\* the last bit of a double of exponent q, a times.
Quarters(a, q) == IF q >= 2 THEN Doubled(a, q - 2) ELSE Fived(a, 2 - q)

\* The decimals that read as the double m * 2^q lie between the middle to the double
\* below it, which is half as far when m is 2^52, and the middle to the double above.
Below(m, q) ==
  IF m = Two52 /\ q > MinExponent
  THEN Quarters(MinusN(Times(m, 4, 0), "1"), q) ELSE Quarters(MinusN(Times(m, 4, 0), "2"), q)

Above(m, q) == Quarters(PlusN(Times(m, 4, 0), "2"), q)

\* The middles themselves read as the double when m is even.
Reads(c, below, above, even) ==
  IF even THEN ~Less(c, below) /\ ~Less(above, c) ELSE Less(below, c) /\ Less(c, above)

\* The digits x are nearer to their first k digits than to the next number of k digits;
\* halfway between them, the even one is the nearer.
NearerBelow(x, k) ==
  \/ DigitVal(SubSeq(x, k + 1, k + 1)) < 5
  \/ (SubSeq(x, k + 1, Len(x)) = "5" \o Zeros(Len(x) - k - 1) /\ ~Odd(SubSeq(x, 1, k)))

\* The shortest decimal, of k digits or more, that reads as the double of exact digits
\* x: of two of one length the nearer to x.
RECURSIVE Shortest(_, _, _, _, _, _)
Candidates(x, below, above, even, e, k, under, over, isUnder, isOver) ==
  CASE isUnder /\ (~isOver \/ NearerBelow(x, k)) -> Strip(under, e + Len(x) - k)
    [] isOver -> Strip(over, e + Len(x) - k)
    [] OTHER -> Shortest(x, below, above, even, e, k + 1)

Between(x, below, above, even, e, k, under, over) ==
  Candidates(x, below, above, even, e, k, under, over,
             Reads(under \o Zeros(Len(x) - k), below, above, even),
             Reads(over \o Zeros(Len(x) - k), below, above, even))

Shortest(x, below, above, even, e, k) ==
  IF Len(x) <= k THEN Strip(x, e)
  ELSE Between(x, below, above, even, e, k, SubSeq(x, 1, k), PlusN(SubSeq(x, 1, k), "1"))

\* The shortest decimal that reads as the double m * 2^q.
Decimal(m, q) ==
  Shortest(Quarters(Times(m, 4, 0), q), Below(m, q), Above(m, q), ~Odd(m),
           IF q >= 2 THEN 0 ELSE q - 2, 1)

\* The finite number of digits x.d (none leading or trailing zero, not empty) times
\* 10^x.e, which is a double.
Finite(neg, x) ==
  IF x.e >= 0 /\ Len(x.d) + x.e <= 9
  THEN Num((IF neg THEN -1 ELSE 1) * IntOf(x.d) * Pow10(x.e))
  ELSE Dec(neg, x.d, x.e)

\* The number that the double r is.
OfDouble(neg, r) ==
  CASE r.q > MaxExponent -> Infinity(IF neg THEN -1 ELSE 1)
    [] r.m = "" -> IF neg THEN NegZero ELSE Num(0)
    [] OTHER -> Finite(neg, Decimal(r.m, r.q))

\* The double nearest to d * 10^e, d without leading or trailing zeros.  A decimal of up
\* to 15 digits in the range of the normal doubles is the shortest that reads as its double.
Nearby(neg, d, e) ==
  CASE Len(d) + e > 310 -> Infinity(IF neg THEN -1 ELSE 1)
    [] Len(d) + e < -325 -> IF neg THEN NegZero ELSE Num(0)
    [] Len(d) <= 15 /\ Len(d) + e >= -306 /\ Len(d) + e <= 308 -> Finite(neg, [d |-> d, e |-> e])
    [] OTHER -> OfDouble(neg, ToDouble(d, e))

\* The number of digits d, leading zeros stripped, times 10^e.
Trimmed(neg, d, e) ==
  IF d = "" THEN (IF neg THEN NegZero ELSE Num(0))
  ELSE Nearby(neg, NoTrailing(d), e + (Len(d) - Len(NoTrailing(d))))

\* The number the digits d times 10^e stand for, negated when neg: the nearest double.
MkNum(neg, d, e) == Trimmed(neg, NoLeading(d), e)

\* The digits d with the decimal point after n of them, or in exponent notation.
Placed(d, n) ==
  CASE n >= Len(d) /\ n <= 21 -> d \o Zeros(n - Len(d))
    [] n > 0 /\ n < Len(d) -> SubSeq(d, 1, n) \o "." \o SubSeq(d, n + 1, Len(d))
    [] n > -6 /\ n <= 0 -> "0." \o Zeros(0 - n) \o d
    [] OTHER -> SubSeq(d, 1, 1) \o (IF Len(d) > 1 THEN "." \o SubSeq(d, 2, Len(d)) ELSE "")
                \o "e" \o (IF n - 1 < 0 THEN "-" ELSE "+") \o ToString(Abs(n - 1))

\* Number::toString
NumStr(x) ==
  CASE "nan" \in DOMAIN x -> "NaN"
    [] "inf" \in DOMAIN x -> IF x.inf < 0 THEN "-Infinity" ELSE "Infinity"
    [] "v" \in DOMAIN x -> IF x.v < 0 THEN "-" \o ToString(0 - x.v) ELSE ToString(x.v)
    [] OTHER -> (IF x.neg THEN "-" ELSE "") \o Placed(x.d, Len(x.d) + x.e)

\* ToString of a primitive value.
PrimStr(x) ==
  CASE x.t = "string" -> x.v
    [] x.t = "number" -> NumStr(x)
    [] x.t = "boolean" -> IF x.v THEN "true" ELSE "false"
    [] x.t = "null" -> "null"
    [] OTHER -> "undefined"

RECURSIVE ToStr(_)
RECURSIVE Join(_, _)

\* Array.prototype.join(","): null and undefined elements give the empty string.
Join(s, i) ==
  IF i > Len(s) THEN ""
  ELSE (IF i > 1 THEN "," ELSE "")
       \o (IF s[i].t \in {"undefined", "null"} THEN "" ELSE ToStr(s[i]))
       \o Join(s, i + 1)

\* ToString, as a template literal, + and JSON.parse apply it: Error.prototype.toString
\* for an Error, the joined elements for an array.
ToStr(x) ==
  CASE x.t = "error" ->
         LET name == IF Get(x, "name") = Undefined THEN "Error" ELSE ToStr(Get(x, "name"))
             msg == IF Get(x, "message") = Undefined THEN "" ELSE ToStr(Get(x, "message"))
         IN CASE name = "" -> msg
              [] msg = "" -> name
              [] OTHER -> name \o ": " \o msg
    [] x.t = "array" -> Join(x.v, 1)
    [] x.t = "object" -> "[object Object]"
    [] OTHER -> PrimStr(x)

\* The own enumerable properties {...x} copies: the properties of an object, the indexed
\* code units of a string and elements of an array, none of undefined, null, a number
\* or a boolean.
Spread(x) ==
  CASE x.t = "object" -> x.v
    [] x.t = "error" -> [k \in (DOMAIN x.v) \ x.hidden |-> x.v[k]]
    [] x.t = "string" ->
         [k \in {ToString(i - 1) : i \in 1..Len(CodeUnits(x.v))} |->
            Str(CodeUnits(x.v)[CHOOSE j \in 1..Len(CodeUnits(x.v)) : ToString(j - 1) = k])]
    [] x.t = "array" ->
         [k \in {ToString(i - 1) : i \in 1..Len(x.v)} |->
            x.v[CHOOSE j \in 1..Len(x.v) : ToString(j - 1) = k]]
    [] OTHER -> NoProps

\* ToPrimitive: an object, an array or an Error becomes its string.
ToPrimitive(x) == IF x.t \in {"object", "array", "error"} THEN Str(ToStr(x)) ELSE x

\* ToNumber of a primitive that is no string.
ToNumber(x) ==
  CASE x.t = "undefined" -> NaN
    [] x.t = "null" -> Num(0)
    [] x.t = "boolean" -> IF x.v THEN Num(1) ELSE Num(0)
    [] OTHER -> x

\* A finite number is below zero, or -0.
Negative(x) == IF "v" \in DOMAIN x THEN x.v < 0 \/ "neg" \in DOMAIN x ELSE x.neg

\* The digits and the exponent of the exact value of a finite number.
Parts(x) ==
  IF "v" \in DOMAIN x THEN [d |-> NoLeading(ToString(Abs(x.v))), e |-> 0]
  ELSE Exact(ToDouble(x.d, x.e))

\* The digits d as so many units of 10^e, in a string of length n.
Aligned(d, shift, n) == Zeros(n - Len(d) - shift) \o d \o Zeros(shift)

\* The sum of the numbers of digits a and b (of one length) times 10^e.
Summed(aneg, a, bneg, b, e) ==
  CASE aneg = bneg -> MkNum(aneg, AddDigits(a, b, 0), e)
    [] a = b -> Num(0)
    [] LessDigits(a, b) -> MkNum(bneg, SubDigits(b, a, 0), e)
    [] OTHER -> MkNum(aneg, SubDigits(a, b, 0), e)

\* The sum of two finite numbers given by their parts, n digits being enough for both.
Aligning(x, y, p, q, e, n) ==
  Summed(Negative(x), Aligned(p.d, p.e - e, n), Negative(y), Aligned(q.d, q.e - e, n), e)

\* The double nearest to the sum of two doubles x and y of exact values p and q: one of
\* them, when the other is zero or beyond its last bit by far.
Sum(x, y, p, q) ==
  CASE p.d = "" /\ q.d = "" -> IF Negative(x) /\ Negative(y) THEN NegZero ELSE Num(0)
    [] q.d = "" -> x
    [] p.d = "" -> y
    [] Len(p.d) + p.e - (Len(q.d) + q.e) > 40 -> x
    [] Len(q.d) + q.e - (Len(p.d) + p.e) > 40 -> y
    [] OTHER ->
         Aligning(x, y, p, q, IF p.e < q.e THEN p.e ELSE q.e,
                  (IF Len(p.d) + p.e > Len(q.d) + q.e THEN Len(p.d) + p.e ELSE Len(q.d) + q.e)
                  - (IF p.e < q.e THEN p.e ELSE q.e))

\* The sum of two numbers.
Add(x, y) ==
  CASE "nan" \in DOMAIN x \/ "nan" \in DOMAIN y -> NaN
    [] "inf" \in DOMAIN x -> IF "inf" \in DOMAIN y /\ y.inf # x.inf THEN NaN ELSE x
    [] "inf" \in DOMAIN y -> y
    [] OTHER -> Sum(x, y, Parts(x), Parts(y))

\* a + b: the concatenation when an operand is a string or an object, the sum otherwise.
Plus(a, b) ==
  LET pa == ToPrimitive(a)
      pb == ToPrimitive(b)
  IN IF pa.t = "string" \/ pb.t = "string" THEN Str(PrimStr(pa) \o PrimStr(pb))
     ELSE Add(ToNumber(pa), ToNumber(pb))

(***************************************************************************)
(* JSON.parse: null, true, false, numbers, strings with their escapes,     *)
(* arrays and objects.  An escape \uXXXX gives the code unit XXXX, whatever *)
(* it is, and a code unit of the text that is written with U+001B is read  *)
(* as the one code unit it is.                                             *)
(***************************************************************************)
Ch(s, i) == IF i >= 1 /\ i <= Len(s) THEN SubSeq(s, i, i) ELSE ""

StartsWith(s, i, w) == i + Len(w) - 1 <= Len(s) /\ SubSeq(s, i, i + Len(w) - 1) = w

IsHex(c) == c # "" /\ \E d \in 1..22 : SubSeq(HexDigits, d, d) = c

HexVal(c) ==
  LET d == CHOOSE k \in 1..22 : SubSeq(HexDigits, k, k) = c
  IN IF d > 16 THEN d - 7 ELSE d - 1

IsControl(c) == \E k \in 1..31 : ControlChars[k] = c

Fail == [ok |-> FALSE, val |-> Undefined, next |-> 0]

Parsed(v, n) == [ok |-> TRUE, val |-> v, next |-> n]

RECURSIVE SkipWs(_, _)
SkipWs(s, i) == IF Ch(s, i) \in {" ", "\n", "\t", "\r"} THEN SkipWs(s, i + 1) ELSE i

\* The end of the digits that start at i.
RECURSIVE DigitsEnd(_, _)
DigitsEnd(s, i) == IF IsDigit(Ch(s, i)) THEN DigitsEnd(s, i + 1) ELSE i

\* The value of an exponent's digits; beyond six digits it is past every double.
Exponent(d) == IF Len(d) > 6 THEN 1000000 ELSE IntOf(d)

\* The number with integer digits i..ie-1, fraction digits ie+1..fe-1 (none when
\* fe = ie) and exponent exp, the text after it starting at next.
Scaled(s, neg, i, ie, fe, exp, next) ==
  Parsed(MkNum(neg,
               SubSeq(s, i, ie - 1) \o (IF fe > ie THEN SubSeq(s, ie + 1, fe - 1) ELSE ""),
               exp - (IF fe > ie THEN fe - ie - 1 ELSE 0)),
         next)

\* The exponent's digits start at xs, after e or E at fe and a sign.
ExponentFrom(s, neg, i, ie, fe, xs) ==
  IF ~IsDigit(Ch(s, xs)) THEN Fail
  ELSE Scaled(s, neg, i, ie, fe,
              (IF Ch(s, fe + 1) = "-" THEN -1 ELSE 1)
                * Exponent(NoLeading(SubSeq(s, xs, DigitsEnd(s, xs) - 1))),
              DigitsEnd(s, xs))

\* The integer and the fraction end at fe: an exponent may follow.
FractionEnd(s, neg, i, ie, fe) ==
  IF Ch(s, fe) \in {"e", "E"}
  THEN ExponentFrom(s, neg, i, ie, fe, IF Ch(s, fe + 1) \in {"+", "-"} THEN fe + 2 ELSE fe + 1)
  ELSE Scaled(s, neg, i, ie, fe, 0, fe)

\* The integer ends at ie: a fraction, a point and digits, may follow.
IntegerEnd(s, neg, i, ie) ==
  CASE Ch(s, ie) # "." -> FractionEnd(s, neg, i, ie, ie)
    [] IsDigit(Ch(s, ie + 1)) -> FractionEnd(s, neg, i, ie, DigitsEnd(s, ie + 1))
    [] OTHER -> Fail

\* The integer starts at i: "0", or a nonzero digit and more digits.
IntegerFrom(s, neg, i) ==
  IF ~IsDigit(Ch(s, i)) THEN Fail
  ELSE IntegerEnd(s, neg, i, IF Ch(s, i) = "0" THEN i + 1 ELSE DigitsEnd(s, i))

\* number: an optional minus, an integer, an optional fraction and an optional exponent.
ParseNumber(s, i) ==
  IF Ch(s, i) = "-" THEN IntegerFrom(s, TRUE, i + 1) ELSE IntegerFrom(s, FALSE, i)

\* The code unit \uXXXX stands for, XXXX being at i..i+3.
Unicode(s, i) ==
  Unit(4096 * HexVal(Ch(s, i)) + 256 * HexVal(Ch(s, i + 1))
       + 16 * HexVal(Ch(s, i + 2)) + HexVal(Ch(s, i + 3)))

\* The closing quote of the string whose first character is at i; 0 when there is none:
\* the text ends, or holds a control character, U+0000 to U+001F, or a backslash that
\* starts no escape.
RECURSIVE StringEnd(_, _)
StringEnd(s, i) ==
  CASE i > Len(s) -> 0
    [] Ch(s, i) = "\"" -> i
    [] Ch(s, i) = "\\" ->
         CASE Ch(s, i + 1) \in {"\"", "\\", "/", "b", "f", "n", "r", "t"} -> StringEnd(s, i + 2)
           [] Ch(s, i + 1) = "u" /\ \A k \in 2..5 : IsHex(Ch(s, i + k)) -> StringEnd(s, i + 6)
           [] OTHER -> 0
    [] Ch(s, i) = ControlChars[27] ->
         IF /\ \A k \in 1..4 : IsHex(Ch(s, i + k))
            /\ Unicode(s, i + 1) = SubSeq(s, i, i + 4)
            /\ Unicode(s, i + 1) \notin {Unit(0), Unit(27)}
         THEN StringEnd(s, i + 5)
         ELSE 0
    [] IsControl(Ch(s, i)) -> 0
    [] OTHER -> StringEnd(s, i + 1)

\* The character an escape of one letter stands for.
Escaped(c) ==
  CASE c = "b" -> ControlChars[8]
    [] c = "f" -> "\f"
    [] c = "n" -> "\n"
    [] c = "r" -> "\r"
    [] c = "t" -> "\t"
    [] OTHER -> c

\* The code units of the string text i..j, its escapes replaced.
RECURSIVE Unescape(_, _, _)
Unescape(s, i, j) ==
  CASE i > j -> ""
    [] Ch(s, i) # "\\" -> Ch(s, i) \o Unescape(s, i + 1, j)
    [] Ch(s, i + 1) = "u" -> Unicode(s, i + 2) \o Unescape(s, i + 6, j)
    [] OTHER -> Escaped(Ch(s, i + 1)) \o Unescape(s, i + 2, j)

ParseString(s, i) ==
  IF Ch(s, i) # "\"" THEN Fail
  ELSE LET e == StringEnd(s, i + 1)
       IN IF e = 0 THEN Fail
          ELSE Parsed(Unescape(s, i + 1, e - 1), e + 1)

RECURSIVE ParseValue(_, _)
RECURSIVE ParseElements(_, _, _)
RECURSIVE ParseMembers(_, _, _)

\* The value that starts at i, leading whitespace skipped.
ParseValue(s, i0) ==
  LET i == SkipWs(s, i0)
      c == Ch(s, i)
  IN CASE StartsWith(s, i, "null") -> Parsed(Null, i + 4)
       [] StartsWith(s, i, "true") -> Parsed(Bool(TRUE), i + 4)
       [] StartsWith(s, i, "false") -> Parsed(Bool(FALSE), i + 5)
       [] c = "\"" ->
            LET r == ParseString(s, i)
            IN IF r.ok THEN Parsed(Str(r.val), r.next) ELSE Fail
       [] c = "-" \/ IsDigit(c) -> ParseNumber(s, i)
       [] c = "[" ->
            LET j == SkipWs(s, i + 1)
            IN IF Ch(s, j) = "]" THEN Parsed(Arr(<<>>), j + 1)
               ELSE ParseElements(s, j, <<>>)
       [] c = "{" ->
            LET j == SkipWs(s, i + 1)
            IN IF Ch(s, j) = "}" THEN Parsed(Obj(NoProps), j + 1)
               ELSE ParseMembers(s, j, NoProps)
       [] OTHER -> Fail

\* The elements of an array from i on, acc being those before.
ParseElements(s, i, acc) ==
  LET r == ParseValue(s, i)
  IN IF ~r.ok THEN Fail
     ELSE LET j == SkipWs(s, r.next)
          IN CASE Ch(s, j) = "," -> ParseElements(s, j + 1, Append(acc, r.val))
               [] Ch(s, j) = "]" -> Parsed(Arr(Append(acc, r.val)), j + 1)
               [] OTHER -> Fail

\* The members of an object from i on, acc being those before; a repeated key keeps the last value.
ParseMembers(s, i0, acc) ==
  LET i == SkipWs(s, i0)
      k == ParseString(s, i)
  IN IF ~k.ok THEN Fail
     ELSE LET c == SkipWs(s, k.next)
          IN IF Ch(s, c) # ":" THEN Fail
             ELSE LET r == ParseValue(s, c + 1)
                  IN IF ~r.ok THEN Fail
                     ELSE LET j == SkipWs(s, r.next)
                              m == Merge(acc, Prop(k.val, r.val))
                          IN CASE Ch(s, j) = "," -> ParseMembers(s, j + 1, m)
                               [] Ch(s, j) = "}" -> Parsed(Obj(m), j + 1)
                               [] OTHER -> Fail

\* JSON.parse(x): x is converted to a string first; ok is FALSE where it throws a SyntaxError.
JSONparse(x) ==
  LET s == ToStr(x)
      r == ParseValue(s, 1)
  IN IF r.ok /\ SkipWs(s, r.next) = Len(s) + 1 THEN r ELSE Fail

\* As canBeParsed, were it to test the body for being there instead of parsing it.
canBeParsedIfNonEmpty(body) == Truthy(body)

canBeParsed(body) == JSONparse(body).ok

(***************************************************************************)
(* Bounds of the model.                                                    *)
(***************************************************************************)
\* Client instances, the exported one included.
MaxClients == 2

\* Calls made in one run of Spec.
MaxCalls == 2

\* Calls made in one run of SpecRace.
MaxRaceCalls == 3

(***************************************************************************)
(* FdyFetchClient                                                          *)
(***************************************************************************)
\* The TypeError of a property read on null or undefined.
TypeError(message) == Err("TypeError", [name |-> Str("TypeError"), message |-> Str(message)])

\* new FdyFetchClient(config, debugMode): the instance it returns, or the TypeError it
\* throws on config.headers when config is null (the default is for undefined only).
constructor(config, debugMode) ==
  LET cfg == Default(config, Obj(NoProps))
  IN IF cfg = Null
     THEN [kind |-> "throw",
           value |-> TypeError("Cannot read properties of null (reading 'headers')")]
     ELSE [kind |-> "return",
           value |-> [defaults |-> Obj(Prop("headers", Or(Get(cfg, "headers"), Obj(NoProps)))),
                      debugMode |-> Default(debugMode, Bool(FALSE)),
                      proxy |-> Or(Get(cfg, "proxy"), Null),
                      baseUrl |-> Or(Get(cfg, "baseUrl"), Null)]]

\* const fdy = new FdyFetchClient({}, false): the exported instance is client 1.
fdy == constructor(Obj(NoProps), Bool(FALSE)).value

buildProxyUrl(proxy) ==
  LET ip == Get(proxy, "ip")
      port == Get(proxy, "port")
      protocol == Get(proxy, "protocol")
      username == Get(proxy, "username")
      password == Get(proxy, "password")
  IN IF Truthy(ip) /\ Truthy(port) /\ Truthy(protocol)
     THEN IF ~Truthy(password) /\ ~Truthy(username)
          THEN Str(ToStr(protocol) \o "://" \o ToStr(ip) \o ":" \o ToStr(port))
          ELSE Str(ToStr(protocol) \o "://" \o ToStr(username) \o ":" \o ToStr(password)
                   \o "@" \o ToStr(ip) \o ":" \o ToStr(port))
     ELSE Undefined

\* As mergedHeaders, with the two spreads in the other order: the defaults win.
mergedHeadersDefaultsLast(self, headers) ==
  Obj(Merge(Spread(headers), Spread(Get(self.defaults, "headers"))))

\* { ...this.defaults.headers, ...headers }
mergedHeaders(self, headers) ==
  Obj(Merge(Spread(Get(self.defaults, "headers")), Spread(headers)))

\* As resolveUrl, without the test for a base URL.
resolveUrlAlwaysPrefixed(self, url) == Plus(self.baseUrl, url)

\* this.baseUrl ? this.baseUrl + url : url
resolveUrl(self, url) == IF Truthy(self.baseUrl) THEN Plus(self.baseUrl, url) ELSE url

\* The object the handler passes to the engine: its own fields, then the options spread over them.
engineRequest(self, c) ==
  Obj(Merge([url |-> resolveUrl(self, c.url),
             body |-> c.body,
             headers |-> mergedHeaders(self, c.headers),
             proxyUrl |-> c.proxyUrl,
             method |-> c.method],
            Spread(c.options)))

\* { method, url }
requestConfig(c) == Obj([method |-> c.method, url |-> c.url])

\* new FdyFetchClientError(message, response, request)
FdyFetchClientError(message, response, request) ==
  Err("FdyFetchClientError",
      [name |-> Str("FetchClientError"),
       message |-> IF message = Undefined THEN Str("") ELSE Str(ToStr(message)),
       response |-> response, request |-> request])

\* The data field: the parsed body when it can be parsed, the body itself otherwise.
parsedOrRaw(body) == IF canBeParsed(body) THEN JSONparse(body).val ELSE body

\* As errorStatus, reading the property the resolved response reads.
errorStatusFromStatus(response) == Get(response, "status")

\* The status field of the error's response.
errorStatus(response) == Get(response, "statusCode")

\* The status field of a resolved response.
responseStatus(response) == Get(response, "status")

\* What the try block throws or returns for the engine's response, data being the data
\* field either branch computes from the body.
responded(self, c, response, data) ==
  IF ~Truthy(Get(response, "ok"))
  THEN [kind |-> "throw",
        value |-> FdyFetchClientError(
          Str("Request failed with status code: " \o ToStr(Get(response, "statusCode"))),
          Obj([data |-> data,
               status |-> errorStatus(response),
               headers |-> Get(response, "headers"),
               config |-> requestConfig(c)]),
          Obj([headers |-> mergedHeaders(self, c.headers),
               config |-> requestConfig(c)]))]
  ELSE [kind |-> "return",
        value |-> Obj([data |-> data,
                       status |-> responseStatus(response),
                       headers |-> Get(response, "headers"),
                       ok |-> Get(response, "ok"),
                       request |-> Obj([config |-> Get(response, "request"),
                                        headers |-> mergedHeaders(self, c.headers)])])]

\* The try block from the engine's answer on: what it returns or throws.
tryBlock(self, c, answer) ==
  IF answer.kind = "rejected" THEN [kind |-> "throw", value |-> answer.value]
  ELSE responded(self, c, answer.value, parsedOrRaw(Get(answer.value, "body")))

\* What console.error is given for a caught error.
debugReport(error) ==
  [url |-> ToStr(Get(error, "url")),
   method |-> ToStr(Get(error, "method")),
   status |-> ToStr(Get(error, "status")),
   responseText |-> ToStr(Get(error, "responseText")),
   message |-> ToStr(Get(error, "message"))]

\* As catchBlock, throwing a FdyFetchClientError around whatever was caught.
catchBlockWrapping(self, error) ==
  [reports |-> IF Truthy(self.debugMode) THEN <<debugReport(error)>> ELSE <<>>,
   thrown |-> IF error.t = "error" /\ error.cls = "FdyFetchClientError" THEN error
              ELSE FdyFetchClientError(Get(error, "message"), Undefined, Undefined)]

\* As catchBlock, throwing the report in place of the error when debug is on.
catchBlockThrowingReport(self, error) ==
  [reports |-> IF Truthy(self.debugMode) THEN <<debugReport(error)>> ELSE <<>>,
   thrown |-> IF Truthy(self.debugMode)
              THEN Err("Error", [name |-> Str("Error"),
                                 message |-> Str("Request failed: " \o debugReport(error).message)])
              ELSE error]

\* The catch block: the reports it writes and the error it throws again.
catchBlock(self, error) ==
  [reports |-> IF Truthy(self.debugMode) THEN <<debugReport(error)>> ELSE <<>>,
   thrown |-> error]

\* The promise rejects with what the catch block throws.
rejection(caught) == [kind |-> "rejected", value |-> caught.thrown, reports |-> caught.reports]

\* How the promise of the handler settles for what the try block did.
settlement(self, tried) ==
  IF tried.kind = "return"
  THEN [kind |-> "resolved", value |-> tried.value, reports |-> <<>>]
  ELSE rejection(catchBlock(self, tried.value))

\* The handler's start, up to its first await: the parameters' defaults and the proxy URL.
\* imported, sent, answers, settled and reports record how the import of the engine ended,
\* what the engine was called with, what it answered, how the call settled and what was
\* written to console.error; op and enableDebug record the public method that was called and the debug argument it
\* was given (undefined when omitted).
privateRequestHandler(selfId, op, url, method, body, headers, options, enableDebug) ==
  [client |-> selfId,
   op |-> op,
   url |-> url,
   method |-> method,
   body |-> body,
   headers |-> Default(headers, Obj(NoProps)),
   options |-> Default(options, Obj(NoProps)),
   enableDebug |-> enableDebug,
   proxyUrl |-> buildProxyUrl(clients[selfId].proxy),
   pc |-> "import",
   imported |-> <<>>,
   sent |-> <<>>,
   answers |-> <<>>,
   settled |-> <<>>,
   reports |-> <<>>]

\* As setDebug, were the verbs to switch debug off whatever they are given.
setDebugOff(enableDebug) == Bool(FALSE)

\* this.#debugMode = enableDebug, enableDebug = false by default
setDebug(enableDebug) == Default(enableDebug, Bool(FALSE))

Init ==
  /\ clients = <<fdy>>
  /\ calls = <<>>

create(self, config, debugMode) ==
  /\ self \in 1..Len(clients)
  /\ Len(clients) < MaxClients
  /\ LET made == constructor(config, debugMode)
     IN clients' = IF made.kind = "return" THEN Append(clients, made.value) ELSE clients
  /\ UNCHANGED calls

request(self, url, method, body, headers, options) ==
  /\ self \in 1..Len(clients)
  /\ calls' = Append(calls, privateRequestHandler(self, "request", url, method, body, headers, options, Undefined))
  /\ UNCHANGED clients

get(self, url, headers, options, enableDebug) ==
  /\ self \in 1..Len(clients)
  /\ clients' = [clients EXCEPT ![self].debugMode = setDebug(enableDebug)]
  /\ calls' = Append(calls, privateRequestHandler(self, "get", url, Str("GET"), Undefined,
                       Default(headers, Obj(NoProps)), Default(options, Obj(NoProps)),
                       enableDebug))

post(self, url, body, headers, options, enableDebug) ==
  /\ self \in 1..Len(clients)
  /\ clients' = [clients EXCEPT ![self].debugMode = setDebug(enableDebug)]
  /\ calls' = Append(calls, privateRequestHandler(self, "post", url, Str("POST"), body,
                       Default(headers, Obj(NoProps)), Default(options, Obj(NoProps)),
                       enableDebug))

put(self, url, body, headers, options, enableDebug) ==
  /\ self \in 1..Len(clients)
  /\ clients' = [clients EXCEPT ![self].debugMode = setDebug(enableDebug)]
  /\ calls' = Append(calls, privateRequestHandler(self, "put", url, Str("PUT"), body,
                       Default(headers, Obj(NoProps)), Default(options, Obj(NoProps)),
                       enableDebug))

delete(self, url, headers, options, enableDebug) ==
  /\ self \in 1..Len(clients)
  /\ clients' = [clients EXCEPT ![self].debugMode = setDebug(enableDebug)]
  /\ calls' = Append(calls, privateRequestHandler(self, "delete", url, Str("DELETE"), Undefined,
                       Default(headers, Obj(NoProps)), Default(options, Obj(NoProps)),
                       enableDebug))

\* The calls, call i having settled as s says.
settle(i, s) ==
  [calls EXCEPT ![i].pc = "done",
                ![i].settled = Append(@, [kind |-> s.kind, value |-> s.value]),
                ![i].reports = @ \o s.reports]

\* What the module got-scraping exports as gotScraping: the engine, a function that can
\* be extended.
gotScraping == [t |-> "function"]

\* The import has resolved and httpClient is what the module holds as gotScraping: the
\* handler extends the engine and calls it, then awaits its answer.  Where httpClient is
\* no engine, extend throws a TypeError: the engine is not called and the handler runs
\* its catch block.
fdyHttpClient(i, httpClient) ==
  /\ i \in 1..Len(calls)
  /\ calls[i].pc = "import"
  /\ calls' =
       [(CASE httpClient = gotScraping ->
                [calls EXCEPT ![i].pc = "transport",
                              ![i].sent = Append(@, engineRequest(clients[calls[i].client], calls[i]))]
           [] httpClient \in {Undefined, Null} ->
                settle(i, settlement(clients[calls[i].client],
                                     [kind |-> "throw",
                                      value |-> TypeError("Cannot read properties of " \o ToStr(httpClient)
                                                          \o " (reading 'extend')")]))
           [] OTHER ->
                settle(i, settlement(clients[calls[i].client],
                                     [kind |-> "throw",
                                      value |-> TypeError("httpClient.extend is not a function")])))
          EXCEPT ![i].imported = Append(@, [kind |-> "fulfilled", value |-> httpClient])]
  /\ UNCHANGED clients

\* The import has rejected with error: the await throws it, the engine is not called and
\* the handler runs its catch block.
fdyHttpClientRejected(i, error) ==
  /\ i \in 1..Len(calls)
  /\ calls[i].pc = "import"
  /\ calls' = [settle(i, settlement(clients[calls[i].client], [kind |-> "throw", value |-> error]))
                 EXCEPT ![i].imported = Append(@, [kind |-> "rejected", value |-> error])]
  /\ UNCHANGED clients

\* The engine's response for the status line, body and headers the server gave.
engineResponse(sent, reply) ==
  Obj([ok |-> reply.ok, statusCode |-> reply.statusCode, body |-> reply.body,
       headers |-> reply.headers, request |-> Obj(Prop("options", sent))])

\* The handler of call i on client self has run to its end for the engine's answer.
handled(self, i, answer) == settle(i, settlement(self, tryBlock(self, calls[i], answer)))

\* As transportSettled, were the catch block to go by the debug argument of the call
\* itself and not by the client's flag.
transportSettledCallScoped(i, answer) ==
  /\ i \in 1..Len(calls)
  /\ calls[i].pc = "transport"
  /\ calls' = [handled([clients[calls[i].client] EXCEPT
                          !.debugMode = Default(calls[i].enableDebug, Bool(FALSE))],
                       i, answer)
                 EXCEPT ![i].answers = Append(@, answer)]
  /\ UNCHANGED clients

\* The engine has answered call i, with a response or a fault: the handler runs to its end.
transportSettled(i, answer) ==
  /\ i \in 1..Len(calls)
  /\ calls[i].pc = "transport"
  /\ calls' = [handled(clients[calls[i].client], i, answer)
                 EXCEPT ![i].answers = Append(@, answer)]
  /\ UNCHANGED clients

(***************************************************************************)
(* The callers and the servers: the arguments calls are made with and the  *)
(* answers the engine gives.  Spec draws them from the small sets and lets *)
(* calls overlap; SpecCall draws one call from the wide sets.              *)
(***************************************************************************)
DefaultHeaders == Obj(("Authorization" :> Str("Bearer your-token")) @@ ("Accept" :> Str("text/html")))

AcceptJson == Obj("Accept" :> Str("application/json"))

AcceptJsonAndId == Obj(("Accept" :> Str("application/json")) @@ ("X-Id" :> Str("7")))

BaseUrl == Str("https://api.example.com")

BaseUrlSlash == Str("https://api.example.com/")

ProxyHostPort == [ip |-> Str("127.0.0.1"), port |-> Num(8080), protocol |-> Str("http")]

\* A proxy with the fields of ProxyHostPort and f, less those named in without.
ProxyWith(f, without) ==
  LET all == Merge(ProxyHostPort, f)
  IN Obj([k \in (DOMAIN all) \ without |-> all[k]])

Credentials == [username |-> Str("username"), password |-> Str("password")]

Proxies ==
  {ProxyWith(NoProps, {}), ProxyWith(Credentials, {}),
   ProxyWith(Credentials, {"password"}), ProxyWith(Credentials, {"username"}),
   ProxyWith(NoProps, {"ip"}), ProxyWith(Credentials, {"port"}), ProxyWith(NoProps, {"protocol"})}

Configs == {Undefined, Obj([headers |-> DefaultHeaders, baseUrl |-> BaseUrl])}

WideConfigs ==
  {Undefined, Null, Obj(Prop("headers", DefaultHeaders)), Obj(Prop("baseUrl", BaseUrl)),
   Obj(Prop("baseUrl", BaseUrlSlash)),
   Obj([headers |-> DefaultHeaders, baseUrl |-> BaseUrl, proxy |-> ProxyWith(Credentials, {})])}
  \cup {Obj(Prop("proxy", p)) : p \in Proxies}

DebugArgs == {Undefined, Bool(TRUE), Bool(FALSE)}

Urls == {Str("/endpoint")}

WideUrls == {Str("/endpoint"), Str("endpoint")}

Bodies == {Str("{\"key\":\"value\"}")}

CallHeaders == {AcceptJson}

WideCallHeaders == {Undefined, AcceptJson, AcceptJsonAndId}

WideCallOptions ==
  {Undefined, Obj(Prop("url", Str("https://other.example.com/x"))),
   Obj([headers |-> Obj("X-Id" :> Str("9")), proxyUrl |-> Str("http://10.0.0.1:3128")])}

ResponseHeaders == Obj("content-type" :> Str("application/json"))

\* What a server sends back, with the engine's verdict on the status code.
Reply(ok, statusCode, body) ==
  [ok |-> Bool(ok), statusCode |-> Num(statusCode), body |-> body, headers |-> ResponseHeaders]

Replies == {Reply(TRUE, 200, Str("{\"id\":1}")), Reply(FALSE, 404, Str("{\"err\":1}"))}

ResponseBodies ==
  {Str("{\"err\":1}"), Str("plain text"), Str(""), Undefined, Str("[1, \"a\", null]"), Str("{\"err\":1"),
   Str("{\"price\":1.5,\"note\":\"a\\nb\",\"mark\":\"\\u0060\\u00e9\\u20AC\\ud83d\\ude00\"}")}

WideReplies ==
  {Reply(TRUE, 200, b) : b \in ResponseBodies} \cup {Reply(FALSE, 404, b) : b \in ResponseBodies}

\* The engine's own errors.
Faults ==
  {Err("RequestError", [name |-> Str("RequestError"), message |-> Str("connect ECONNREFUSED"),
                        code |-> Str("ECONNREFUSED")])}

WideFaults ==
  Faults \cup
  {Err("TimeoutError", [name |-> Str("TimeoutError"), message |-> Str("Timeout awaiting 'request'"),
                        code |-> Str("ETIMEDOUT")])}

\* What import("got-scraping") rejects with where the package is not installed: the
\* message names the importing file, index.js, by its path base.
ModuleNotFound(base) ==
  Err("Error", [name |-> Str("Error"),
                message |-> Str("Cannot find package 'got-scraping' imported from " \o base),
                code |-> Str("ERR_MODULE_NOT_FOUND")])

\* The answers the engine may give to call i.
Answers(i, replies, faults) ==
  IF calls[i].sent = <<>> THEN {}
  ELSE {[kind |-> "fulfilled", value |-> engineResponse(calls[i].sent[Len(calls[i].sent)], r)] :
          r \in replies}
       \cup {[kind |-> "rejected", value |-> f] : f \in faults}

Clients == 1..Len(clients)

Next ==
  \/ \E self \in Clients, config \in Configs, debugMode \in DebugArgs :
       create(self, config, debugMode)
  \/ \E self \in Clients, url \in Urls, method \in {Str("PATCH")}, body \in Bodies,
        headers \in CallHeaders, options \in {Undefined} :
       Len(calls) < MaxCalls /\ request(self, url, method, body, headers, options)
  \/ \E self \in Clients, url \in Urls, headers \in CallHeaders, options \in {Undefined},
        enableDebug \in DebugArgs :
       Len(calls) < MaxCalls /\ get(self, url, headers, options, enableDebug)
  \/ \E self \in Clients, url \in Urls, body \in Bodies, headers \in CallHeaders,
        options \in {Undefined}, enableDebug \in DebugArgs :
       Len(calls) < MaxCalls /\ post(self, url, body, headers, options, enableDebug)
  \/ \E self \in Clients, url \in Urls, body \in Bodies, headers \in CallHeaders,
        options \in {Undefined}, enableDebug \in DebugArgs :
       Len(calls) < MaxCalls /\ put(self, url, body, headers, options, enableDebug)
  \/ \E self \in Clients, url \in Urls, headers \in CallHeaders, options \in {Undefined},
        enableDebug \in DebugArgs :
       Len(calls) < MaxCalls /\ delete(self, url, headers, options, enableDebug)
  \/ \E i \in 1..Len(calls), httpClient \in {gotScraping, Undefined} : fdyHttpClient(i, httpClient)
  \/ \E i \in 1..Len(calls), base \in {"/root/workspace/src/index.js"} :
       fdyHttpClientRejected(i, ModuleNotFound(base))
  \/ \E i \in 1..Len(calls) : \E answer \in Answers(i, Replies, Faults) :
       transportSettled(i, answer)

Spec == Init /\ [][Next]_vars

\* One client is created and one call is made, with arguments and answers from the wide sets.
NextCall ==
  \/ \E self \in Clients, config \in WideConfigs, debugMode \in DebugArgs :
       Len(clients) = 1 /\ create(self, config, debugMode)
  \/ \E self \in Clients, url \in WideUrls, method \in {Str("PATCH")}, body \in Bodies,
        headers \in WideCallHeaders, options \in WideCallOptions :
       calls = <<>> /\ request(self, url, method, body, headers, options)
  \/ \E self \in Clients, url \in WideUrls, headers \in WideCallHeaders,
        options \in WideCallOptions, enableDebug \in DebugArgs :
       calls = <<>> /\ get(self, url, headers, options, enableDebug)
  \/ \E self \in Clients, url \in WideUrls, body \in Bodies, headers \in WideCallHeaders,
        options \in WideCallOptions, enableDebug \in DebugArgs :
       calls = <<>> /\ post(self, url, body, headers, options, enableDebug)
  \/ \E self \in Clients, url \in WideUrls, body \in Bodies, headers \in WideCallHeaders,
        options \in WideCallOptions, enableDebug \in DebugArgs :
       calls = <<>> /\ put(self, url, body, headers, options, enableDebug)
  \/ \E self \in Clients, url \in WideUrls, headers \in WideCallHeaders,
        options \in WideCallOptions, enableDebug \in DebugArgs :
       calls = <<>> /\ delete(self, url, headers, options, enableDebug)
  \/ \E i \in 1..Len(calls), httpClient \in {gotScraping, Undefined} : fdyHttpClient(i, httpClient)
  \/ \E i \in 1..Len(calls),
        base \in {"/root/workspace/src/index.js", "/app/node_modules/fdy-scraping/src/index.js"} :
       fdyHttpClientRejected(i, ModuleNotFound(base))
  \/ \E i \in 1..Len(calls) : \E answer \in Answers(i, WideReplies, WideFaults) :
       transportSettled(i, answer)

SpecCall == Init /\ [][NextCall]_vars

\* Calls that fail, made with debug on or off, overlap on the same clients: the arguments
\* and the answers are the fewest that do, so that three calls can be in flight.
NextRace ==
  \/ \E self \in Clients, debugMode \in {Bool(TRUE), Bool(FALSE)} :
       calls = <<>> /\ create(self, Undefined, debugMode)
  \/ \E self \in Clients, url \in Urls, method \in {Str("PATCH")} :
       Len(calls) < MaxRaceCalls /\ request(self, url, method, Undefined, Undefined, Undefined)
  \/ \E self \in Clients, url \in Urls, enableDebug \in {Bool(TRUE), Bool(FALSE)} :
       Len(calls) < MaxRaceCalls /\ get(self, url, Undefined, Undefined, enableDebug)
  \/ \E self \in Clients, url \in Urls, enableDebug \in {Bool(TRUE), Bool(FALSE)} :
       Len(calls) < MaxRaceCalls /\ post(self, url, Undefined, Undefined, Undefined, enableDebug)
  \/ \E self \in Clients, url \in Urls, enableDebug \in {Bool(TRUE), Bool(FALSE)} :
       Len(calls) < MaxRaceCalls /\ put(self, url, Undefined, Undefined, Undefined, enableDebug)
  \/ \E self \in Clients, url \in Urls, enableDebug \in {Bool(TRUE), Bool(FALSE)} :
       Len(calls) < MaxRaceCalls /\ delete(self, url, Undefined, Undefined, enableDebug)
  \/ \E i \in 1..Len(calls), httpClient \in {gotScraping, Undefined} : fdyHttpClient(i, httpClient)
  \/ \E i \in 1..Len(calls), base \in {"/root/workspace/src/index.js"} :
       fdyHttpClientRejected(i, ModuleNotFound(base))
  \/ \E i \in 1..Len(calls) : \E answer \in Answers(i, {}, Faults) :
       transportSettled(i, answer)

SpecRace == Init /\ [][NextRace]_vars

\* Three calls overlap on the instance the module exports, each ending in any of the ways
\* a call can end: a response, a fault of the engine, an import that rejects, an import
\* that gives no engine to extend.
NextOutcome ==
  \/ \E self \in Clients, url \in Urls, method \in {Str("PATCH")} :
       Len(calls) < MaxRaceCalls /\ request(self, url, method, Undefined, Undefined, Undefined)
  \/ \E self \in Clients, url \in Urls, enableDebug \in {Bool(TRUE)} :
       Len(calls) < MaxRaceCalls /\ get(self, url, Undefined, Undefined, enableDebug)
  \/ \E self \in Clients, url \in Urls, enableDebug \in {Bool(TRUE)} :
       Len(calls) < MaxRaceCalls /\ post(self, url, Undefined, Undefined, Undefined, enableDebug)
  \/ \E self \in Clients, url \in Urls, enableDebug \in {Bool(TRUE)} :
       Len(calls) < MaxRaceCalls /\ put(self, url, Undefined, Undefined, Undefined, enableDebug)
  \/ \E self \in Clients, url \in Urls, enableDebug \in {Bool(TRUE)} :
       Len(calls) < MaxRaceCalls /\ delete(self, url, Undefined, Undefined, enableDebug)
  \/ \E i \in 1..Len(calls), httpClient \in {gotScraping, Undefined} : fdyHttpClient(i, httpClient)
  \/ \E i \in 1..Len(calls), base \in {"/root/workspace/src/index.js"} :
       fdyHttpClientRejected(i, ModuleNotFound(base))
  \/ \E i \in 1..Len(calls) : \E answer \in Answers(i, Replies, Faults) :
       transportSettled(i, answer)

SpecOutcome == Init /\ [][NextOutcome]_vars

(***************************************************************************)
(* What the properties below speak of.                                     *)
(***************************************************************************)
Calls == 1..Len(calls)

IsDone(i) == calls[i].pc = "done"

\* The engine has answered call i.
Answered(i) == calls[i].answers # <<>>

\* The import of the engine failed for call i.
ImportFailed(i) == calls[i].imported # <<>> /\ calls[i].imported[1].kind = "rejected"

\* The import gave call i no engine: extend threw.
ExtendFailed(i) ==
  /\ calls[i].imported # <<>>
  /\ calls[i].imported[1].kind = "fulfilled"
  /\ calls[i].imported[1].value # gotScraping

\* The engine's answer to call i and what the call settled with, once it is done.
AnswerOf(i) == calls[i].answers[1]

OutcomeOf(i) == calls[i].settled[1]

ClientOf(i) == clients[calls[i].client]

\* The engine answered call i with a response whose ok is b.
AnsweredOk(i, b) ==
  /\ IsDone(i)
  /\ Answered(i)
  /\ AnswerOf(i).kind = "fulfilled"
  /\ Get(AnswerOf(i).value, "ok") = Bool(b)

\* m holds the keys of d and of c, with c's value where c has the key and d's elsewhere.
IsShallowMerge(m, d, c) ==
  /\ m.t = "object" /\ d.t = "object" /\ c.t = "object"
  /\ DOMAIN m.v = (DOMAIN d.v) \cup (DOMAIN c.v)
  /\ \A k \in DOMAIN c.v : m.v[k] = c.v[k]
  /\ \A k \in (DOMAIN d.v) \ (DOMAIN c.v) : m.v[k] = d.v[k]

\* The headers call i is expected to send: the merge of its client's defaults and its own.
HasMergedHeaders(i, m) ==
  IsShallowMerge(m, Get(ClientOf(i).defaults, "headers"), calls[i].headers)

VerbOps == {"get", "post", "put", "delete"}

\* C1: a call whose transport result has ok = false rejects with a FdyFetchClientError
\* whose response.status is the transport's statusCode, whose response.headers are the
\* transport's headers, whose response.config is {method, url} of the call and whose
\* request.headers are the merged request headers.
C1_NotOkRejectsWithClientError ==
  \A i \in Calls :
    AnsweredOk(i, FALSE) =>
      LET e == OutcomeOf(i).value
          r == AnswerOf(i).value
      IN /\ Len(calls[i].settled) = 1
         /\ OutcomeOf(i).kind = "rejected"
         /\ e.t = "error" /\ e.cls = "FdyFetchClientError"
         /\ Get(r, "statusCode").t = "number"
         /\ Get(Get(e, "response"), "status") = Get(r, "statusCode")
         /\ Get(Get(e, "response"), "headers") = Get(r, "headers")
         /\ Get(Get(e, "response"), "config") = Obj([method |-> calls[i].method, url |-> calls[i].url])
         /\ HasMergedHeaders(i, Get(Get(e, "request"), "headers"))

\* A call with headers of its own, on a client with default headers and a base URL, was
\* answered with ok = false and has rejected.
C1_Witness ==
  \E i \in Calls :
    /\ AnsweredOk(i, FALSE)
    /\ OutcomeOf(i).kind = "rejected"
    /\ Truthy(ClientOf(i).baseUrl)
    /\ DOMAIN Get(ClientOf(i).defaults, "headers").v # {}
    /\ DOMAIN calls[i].headers.v # {}

\* C2: a call whose transport result has ok = true resolves with a response whose status
\* is the transport's statusCode, whose ok is the transport's ok, whose headers are the
\* transport's headers and whose request echo holds the engine's request object and the
\* merged headers.
C2_OkResolvesWithTransportStatus ==
  \A i \in Calls :
    AnsweredOk(i, TRUE) =>
      LET v == OutcomeOf(i).value
          r == AnswerOf(i).value
      IN /\ OutcomeOf(i).kind = "resolved"
         /\ Get(v, "status") = Get(r, "statusCode")
         /\ Get(v, "ok") = Bool(TRUE)
         /\ Get(v, "headers") = Get(r, "headers")
         /\ Get(Get(v, "request"), "config") = Get(r, "request")
         /\ HasMergedHeaders(i, Get(Get(v, "request"), "headers"))

\* A verb call on client self with debug argument arg is made in this step.
VerbCalled(self, arg) ==
  /\ Len(calls') = Len(calls) + 1
  /\ calls'[Len(calls')].client = self
  /\ calls'[Len(calls')].op \in VerbOps
  /\ calls'[Len(calls')].enableDebug = arg

\* C3: debug mode, once enabled on a client (by create or by a verb call), is still
\* enabled after a following verb call on that client that passes no debug argument.
C3_DebugSurvivesVerbCallWithoutArgument ==
  [][\A self \in Clients :
       (Truthy(clients[self].debugMode) /\ VerbCalled(self, Undefined))
         => Truthy(clients'[self].debugMode)]_vars

\* C4: every get/post/put/delete call sets its client's debug flag to its enableDebug
\* argument, false when omitted; every other step (request, create, the handler's own
\* steps, calls on other clients) leaves the flag of a client as it was.
C4_VerbCallsSetDebugOthersKeepIt ==
  [][\A self \in Clients :
       IF \E arg \in DebugArgs : VerbCalled(self, arg)
       THEN \A arg \in DebugArgs :
              VerbCalled(self, arg) =>
                clients'[self].debugMode = (IF arg = Undefined THEN Bool(FALSE) ELSE arg)
       ELSE clients'[self].debugMode = clients[self].debugMode]_vars

\* A verb call turned debug on, a later request() on the same client left it on, and the
\* request's error was reported.
C4_Witness ==
  \E i, j \in Calls :
    /\ i < j
    /\ calls[i].client = calls[j].client
    /\ calls[i].op \in VerbOps /\ calls[i].enableDebug = Bool(TRUE)
    /\ calls[j].op = "request"
    /\ IsDone(j) /\ OutcomeOf(j).kind = "rejected"
    /\ calls[j].reports # <<>>
    /\ ClientOf(j).debugMode = Bool(TRUE)

\* The value JSON.parse gives for the bodies the servers send that are JSON texts; the
\* body itself for the others.  The string at mark has the five code units U+0060, U+00E9,
\* U+20AC, U+D83D and U+DE00.
ExpectedData(body) ==
  CASE body = Str("{\"err\":1}") -> Obj([err |-> Num(1)])
    [] body = Str("{\"id\":1}") -> Obj([id |-> Num(1)])
    [] body = Str("[1, \"a\", null]") -> Arr(<<Num(1), Str("a"), Null>>)
    [] body = Str("{\"price\":1.5,\"note\":\"a\\nb\",\"mark\":\"\\u0060\\u00e9\\u20AC\\ud83d\\ude00\"}") ->
         Obj([price |-> Dec(FALSE, "15", -1), note |-> Str("a\nb"),
              mark |-> Str("0060é20acd83dde00")])
    [] OTHER -> body

\* The data field of what call i settled with.
DataOf(i) ==
  IF OutcomeOf(i).kind = "resolved" THEN Get(OutcomeOf(i).value, "data")
  ELSE Get(Get(OutcomeOf(i).value, "response"), "data")

\* C5: on a successful and on an unsuccessful transport result alike, data is the parsed
\* JSON value of the body when the body is a JSON text and the body itself, unmodified,
\* otherwise (other text, the empty string, no body); a body that is no JSON text causes
\* no error of its own: the call resolves when ok is true and rejects with a
\* FdyFetchClientError when it is false.
C5_DataIsParsedJsonOrRawBody ==
  \A i \in Calls :
    (IsDone(i) /\ Answered(i) /\ AnswerOf(i).kind = "fulfilled") =>
      LET r == AnswerOf(i).value
      IN /\ Len(calls[i].settled) = 1
         /\ (OutcomeOf(i).kind = "resolved") <=> (Get(r, "ok") = Bool(TRUE))
         /\ OutcomeOf(i).kind = "rejected" =>
              (OutcomeOf(i).value.t = "error" /\ OutcomeOf(i).value.cls = "FdyFetchClientError")
         /\ DataOf(i) = ExpectedData(Get(r, "body"))

\* A rejected call whose error carries the parsed object of a JSON body, the escapes in
\* its strings replaced by the code units they stand for.
C5_Witness ==
  \E i \in Calls :
    /\ AnsweredOk(i, FALSE)
    /\ Get(AnswerOf(i).value, "body")
         = Str("{\"price\":1.5,\"note\":\"a\\nb\",\"mark\":\"\\u0060\\u00e9\\u20AC\\ud83d\\ude00\"}")
    /\ Get(DataOf(i), "note") = Str("a\nb")
    /\ Get(DataOf(i), "mark") = Str(Unit(96) \o Unit(233) \o Unit(8364) \o Unit(55357) \o Unit(56832))
    /\ Len(CodeUnits(Get(DataOf(i), "mark").v)) = 5

\* C6: the headers given to the engine (when the options carry no headers of their own)
\* and the headers echoed in the response or the error are the shallow merge of the
\* client's default headers and then the call's headers; the client's default headers are
\* never modified.
C6_HeadersAreMergedDefaultsKept ==
  /\ [](\A i \in Calls :
          /\ (calls[i].sent # <<>> /\ "headers" \notin DOMAIN calls[i].options.v)
               => HasMergedHeaders(i, Get(calls[i].sent[1], "headers"))
          /\ (IsDone(i) /\ OutcomeOf(i).kind = "resolved")
               => HasMergedHeaders(i, Get(Get(OutcomeOf(i).value, "request"), "headers"))
          /\ (IsDone(i) /\ Answered(i) /\ AnswerOf(i).kind = "fulfilled"
                /\ OutcomeOf(i).kind = "rejected")
               => HasMergedHeaders(i, Get(Get(OutcomeOf(i).value, "request"), "headers")))
  /\ [][\A self \in Clients : clients'[self].defaults = clients[self].defaults]_vars

\* A resolved call whose headers and whose client's default headers share the key Accept
\* while only the defaults hold Authorization: the engine got the call's Accept and the
\* default Authorization.
C6_Witness ==
  \E i \in Calls :
    /\ AnsweredOk(i, TRUE)
    /\ Get(ClientOf(i).defaults, "headers") = DefaultHeaders
    /\ calls[i].headers = AcceptJson
    /\ "headers" \notin DOMAIN calls[i].options.v
    /\ Get(Get(calls[i].sent[1], "headers"), "Accept") = Str("application/json")
    /\ Get(Get(calls[i].sent[1], "headers"), "Authorization") = Str("Bearer your-token")

\* s holds w somewhere.
Contains(s, w) == \E k \in 1..Len(s) : StartsWith(s, k, w)

\* C7: the proxy URL is built only when the proxy's ip, port and protocol are all there
\* and is absent otherwise; it is protocol://ip:port when username and password are both
\* absent and protocol://username:password@ip:port when both are there; with exactly one
\* of them there, no URL with an undefined half of the credentials is built.
C7_ProxyUrlShape ==
  \A i \in Calls :
    LET proxy == ClientOf(i).proxy
        has(k) == Truthy(Get(proxy, k))
        hostPort == ToStr(Get(proxy, "ip")) \o ":" \o ToStr(Get(proxy, "port"))
        scheme == ToStr(Get(proxy, "protocol")) \o "://"
        u == calls[i].proxyUrl
    IN IF ~(has("ip") /\ has("port") /\ has("protocol")) THEN u = Undefined
       ELSE /\ (~has("username") /\ ~has("password")) => u = Str(scheme \o hostPort)
            /\ (has("username") /\ has("password")) =>
                 u = Str(scheme \o ToStr(Get(proxy, "username")) \o ":"
                         \o ToStr(Get(proxy, "password")) \o "@" \o hostPort)
            /\ (has("username") # has("password")) =>
                 (u.t = "string" => ~Contains(u.v, "undefined"))

\* The client's base URL followed by the call's url, or the call's url when there is none.
ExpectedUrl(i) ==
  IF ClientOf(i).baseUrl.t = "string" /\ ClientOf(i).baseUrl.v # ""
  THEN Str(ClientOf(i).baseUrl.v \o calls[i].url.v)
  ELSE calls[i].url

\* No step changes the base URL, the proxy or the default headers of a client.
ConfigKept ==
  \A self \in Clients :
    /\ clients'[self].baseUrl = clients[self].baseUrl
    /\ clients'[self].proxy = clients[self].proxy
    /\ clients'[self].defaults = clients[self].defaults

\* C8, as stated: the URL given to the engine is the client's baseUrl followed by the
\* call's url when the client has a baseUrl and the call's url otherwise; no call changes
\* the client's baseUrl, proxy or default headers.
C8_UrlIsBaseUrlPlusUrl ==
  /\ [](\A i \in Calls : calls[i].sent # <<>> => Get(calls[i].sent[1], "url") = ExpectedUrl(i))
  /\ [][ConfigKept]_vars

\* C8, amended: the same for every call whose options carry no url of their own; the
\* options are spread over the request last, and a url among them is what the engine gets.
C8_UrlIsBaseUrlPlusUrlUnlessOverridden ==
  /\ [](\A i \in Calls :
          calls[i].sent # <<>> =>
            Get(calls[i].sent[1], "url") =
              (IF "url" \in DOMAIN calls[i].options.v THEN calls[i].options.v["url"]
               ELSE ExpectedUrl(i)))
  /\ [][ConfigKept]_vars

\* The engine was given https://api.example.com/endpoint for /endpoint on a client whose
\* base URL is https://api.example.com.
C8_Witness ==
  \E i \in Calls :
    /\ calls[i].sent # <<>>
    /\ ClientOf(i).baseUrl = BaseUrl
    /\ calls[i].url = Str("/endpoint")
    /\ Get(calls[i].sent[1], "url") = Str("https://api.example.com/endpoint")

\* C9, as stated: a call invokes the engine once, with no second attempt after a fault or
\* an unsuccessful result, and settles once; when the engine raises a fault the call
\* rejects with that fault itself, not with a FdyFetchClientError around it.
C9_OneInvocationOneSettlementFaultUnchanged ==
  \A i \in Calls :
    /\ Len(calls[i].sent) = (IF calls[i].pc = "import" THEN 0 ELSE 1)
    /\ Len(calls[i].answers) = (IF IsDone(i) THEN 1 ELSE 0)
    /\ Len(calls[i].settled) = (IF IsDone(i) THEN 1 ELSE 0)
    /\ (IsDone(i) /\ AnswerOf(i).kind = "rejected") =>
         /\ OutcomeOf(i).kind = "rejected"
         /\ OutcomeOf(i).value = AnswerOf(i).value
         /\ OutcomeOf(i).value.cls # "FdyFetchClientError"

\* C9, amended: a call invokes the engine once when the import of got-scraping has
\* resolved and what it gave could be extended, and not at all when the import rejects or
\* extend throws, the call then rejecting with that error itself, the error of the import
\* or the TypeError of extend; there is no second attempt after a fault or an unsuccessful
\* result, the call settles once, and when the engine raises a fault the call rejects with
\* that fault itself, not with a FdyFetchClientError around it.
C9_AtMostOneInvocationOneSettlementFaultUnchanged ==
  \A i \in Calls :
    /\ Len(calls[i].imported) = (IF calls[i].pc = "import" THEN 0 ELSE 1)
    /\ Len(calls[i].sent) =
         (IF calls[i].pc = "import" \/ ImportFailed(i) \/ ExtendFailed(i) THEN 0 ELSE 1)
    /\ Len(calls[i].answers) =
         (IF IsDone(i) /\ ~ImportFailed(i) /\ ~ExtendFailed(i) THEN 1 ELSE 0)
    /\ Len(calls[i].settled) = (IF IsDone(i) THEN 1 ELSE 0)
    /\ ImportFailed(i) =>
         /\ IsDone(i)
         /\ OutcomeOf(i).kind = "rejected"
         /\ OutcomeOf(i).value = calls[i].imported[1].value
         /\ OutcomeOf(i).value.cls # "FdyFetchClientError"
    /\ ExtendFailed(i) =>
         /\ IsDone(i)
         /\ OutcomeOf(i).kind = "rejected"
         /\ OutcomeOf(i).value =
              Err("TypeError", [name |-> Str("TypeError"),
                                message |-> Str("Cannot read properties of undefined (reading 'extend')")])
    /\ (IsDone(i) /\ Answered(i) /\ AnswerOf(i).kind = "rejected") =>
         /\ OutcomeOf(i).kind = "rejected"
         /\ OutcomeOf(i).value = AnswerOf(i).value
         /\ OutcomeOf(i).value.cls # "FdyFetchClientError"

\* A call has rejected with the engine's fault while debug was on for it, another has
\* rejected with the error of the failed import, which names index.js, and a third with
\* the TypeError of extend, the engine called for neither of the two.
C9_Witness ==
  \E i, j, k \in Calls :
    /\ IsDone(i)
    /\ Answered(i)
    /\ AnswerOf(i).kind = "rejected"
    /\ OutcomeOf(i).kind = "rejected"
    /\ calls[i].reports # <<>>
    /\ IsDone(j)
    /\ ImportFailed(j)
    /\ Get(OutcomeOf(j).value, "message")
         = Str("Cannot find package 'got-scraping' imported from /root/workspace/src/index.js")
    /\ calls[j].sent = <<>>
    /\ OutcomeOf(j).kind = "rejected"
    /\ IsDone(k)
    /\ ExtendFailed(k)
    /\ calls[k].sent = <<>>
    /\ OutcomeOf(k).kind = "rejected"

\* Calls i and j were made with the same arguments on clients of the same configuration
\* and got the same answer, of the import and of the engine.
SameCall(i, j) ==
  /\ IsDone(i) /\ IsDone(j)
  /\ ClientOf(i).defaults = ClientOf(j).defaults
  /\ ClientOf(i).proxy = ClientOf(j).proxy
  /\ ClientOf(i).baseUrl = ClientOf(j).baseUrl
  /\ calls[i].url = calls[j].url /\ calls[i].method = calls[j].method
  /\ calls[i].body = calls[j].body /\ calls[i].headers = calls[j].headers
  /\ calls[i].options = calls[j].options
  /\ calls[i].imported = calls[j].imported
  /\ calls[i].answers = calls[j].answers

\* C10: what a call resolves or rejects with does not depend on the debug flag: two calls
\* with the same client configuration, arguments and transport result settle alike,
\* whether or not either was reported; a report is written only for a call that rejects.
C10_OutcomeIndependentOfDebug ==
  /\ \A i, j \in Calls : SameCall(i, j) => OutcomeOf(i) = OutcomeOf(j)
  /\ \A i \in Calls : calls[i].reports # <<>> => (IsDone(i) /\ OutcomeOf(i).kind = "rejected")

\* Two such calls have rejected, one reported and the other not.
C10_Witness ==
  \E i, j \in Calls :
    /\ SameCall(i, j)
    /\ OutcomeOf(i).kind = "rejected"
    /\ calls[i].reports # <<>>
    /\ calls[j].reports = <<>>

\* Call i rejects in this step.
RejectsNow(i) ==
  /\ calls[i].pc # "done"
  /\ calls'[i].pc = "done"
  /\ calls'[i].settled[1].kind = "rejected"

\* C11: whether the error of a call is reported is decided by its client's debug flag at
\* the time the error is caught, after the import or the engine has answered, and not by the debug
\* argument the call was made with; a verb call changes the flag of no other client.
\* With calls in flight on one client that were made with different debug arguments, a
\* call made with enableDebug = true can so fail unreported and one made with
\* enableDebug = false can be reported (C11_Witness).
C11_ReportGoesByFlagAtCatch ==
  /\ [][\A i \in Calls :
          RejectsNow(i) =>
            /\ Len(calls'[i].reports) = (IF Truthy(ClientOf(i).debugMode) THEN 1 ELSE 0)
            /\ clients' = clients]_vars
  /\ [][\A self \in Clients, other \in Clients :
          (self # other /\ \E arg \in DebugArgs : VerbCalled(self, arg))
            => clients'[other].debugMode = clients[other].debugMode]_vars

\* Three verb calls overlapped on one client: the first, made with enableDebug = true,
\* failed unreported after the second, made with false, had turned debug off; the second
\* failed and was reported after the third, made with true, had turned it on again.
C11_Witness ==
  \E i, j, k \in Calls :
    /\ i < j /\ j < k
    /\ calls[i].client = calls[j].client /\ calls[j].client = calls[k].client
    /\ calls[i].op \in VerbOps /\ calls[j].op \in VerbOps /\ calls[k].op \in VerbOps
    /\ calls[i].enableDebug = Bool(TRUE)
    /\ calls[j].enableDebug = Bool(FALSE)
    /\ calls[k].enableDebug = Bool(TRUE)
    /\ IsDone(i) /\ OutcomeOf(i).kind = "rejected" /\ calls[i].reports = <<>>
    /\ IsDone(j) /\ OutcomeOf(j).kind = "rejected" /\ calls[j].reports # <<>>
    /\ calls[k].pc = "transport"

====
